---- MODULE Spec2Model ----
(***************************************************************************)
(* Key fragments of the Umbral proxy re-encryption scheme:                 *)
(* umbral-pre/src/key_frag.rs (generation, verification, serialization),   *)
(* src/curve.rs (point encoding) and umbral-pre-python/src/lib.rs (the     *)
(* Python binding).                                                        *)
(*                                                                         *)
(* The curve group is modelled by a cyclic group of small prime order: a   *)
(* point k.G is represented by k, 0 being the identity.  Hashes are random *)
(* oracles (every scalar is a possible output, the same input gives the    *)
(* same output), the digest of hash_to_cfrag_signature is collision free   *)
(* and signatures are unforgeable.                                         *)
(***************************************************************************)
EXTENDS Integers, Sequences, FiniteSets, TLC

VARIABLES pc, args, attempts, shared_oracle, factory, poly_oracle, result,
          py_result, call, wire, parsed

vars == <<pc, args, attempts, shared_oracle, factory, poly_oracle, result,
          py_result, call, wire, parsed>>

(***************************************************************************)
(* Bounds of the exploration.                                              *)
(***************************************************************************)
\* largest threshold passed to generate_kfrags
MaxThreshold == 2
\* largest num_kfrags passed to generate_kfrags
MaxKfrags == 2
\* number of d == 0 draws explored in the loop of KeyFragFactory::new
MaxAttempts == 3
\* KeyFragID::random() draws among the ids 0..MaxId
MaxId == 1

(***************************************************************************)
(* Curve arithmetic.                                                       *)
(***************************************************************************)
\* order of the group (Secp256k1), scaled down to a small prime
Order == 5

Scalars == 0 .. (Order - 1)

\* the range of CurveScalar::random_nonzero()
NonZeroScalars == 1 .. (Order - 1)

\* the points other than the identity
Points == 1 .. (Order - 1)

\* CurvePoint::generator()
G == 1

\* &point * &scalar
PointMul(p, s) == (p * s) % Order

\* &a * &b on scalars
ScalarMul(a, b) == (a * b) % Order

\* &a + &b on scalars
ScalarAdd(a, b) == (a + b) % Order

\* a - b on scalars
ScalarSub(a, b) == (a + Order - b) % Order

RECURSIVE ScalarPow(_, _)
ScalarPow(a, e) == IF e = 0 THEN 1 ELSE ScalarMul(a, ScalarPow(a, e - 1))

\* d.invert().unwrap() (the inverse of a nonzero scalar; 0 for 0, where the
\* code's unwrap() has nothing to return)
ScalarInvert(d) == ScalarPow(d, Order - 2)

\* PublicKey::from_secret_key(sk) = sk.G
PublicKeyOf(sk) == PointMul(G, sk)

\* Parameters::new().u
U == 2

\* Option<T>
None == <<>>

Some(x) == <<x>>

none_unless(x, predicate) == IF predicate THEN x ELSE None

(***************************************************************************)
(* Hashing and signing.                                                    *)
(***************************************************************************)
\* hash_to_cfrag_signature(kfrag_id, commitment, precursor, maybe_delegating_pk,
\* maybe_receiving_pk): the digest of the serialized inputs, collision free
hash_to_cfrag_signature(id, commitment, precursor, mdpk, mrpk) ==
    <<id, commitment, precursor, mdpk, mrpk>>

\* the hashers serialize their point arguments (point_to_bytes), which has no
\* encoding of the identity: p.to_affine().unwrap() panics
PointSerializable(p) == p # 0

\* the code of an optional public key in a signature
KeyCode(maybe_pk) == IF maybe_pk = None THEN 0 ELSE maybe_pk[1]

SignatureSize == 64

\* The signature r || s of a digest under a signer's public key, 64 bytes.  It
\* is the one signature that verifies for (signer, digest), and no two pairs
\* share one: byte 1 is a tag, bytes 2..33 the id, then the signer and the rest
\* of the digest.
SignatureOf(digest, signer) ==
    [i \in 1 .. SignatureSize |->
        IF i = 1 THEN 1
        ELSE IF i <= 33 THEN digest[1][i - 1]
        ELSE IF i = 34 THEN signer
        ELSE IF i = 35 THEN digest[2]
        ELSE IF i = 36 THEN digest[3]
        ELSE IF i = 37 THEN KeyCode(digest[4])
        ELSE IF i = 38 THEN KeyCode(digest[5])
        ELSE 0]

\* digest.sign(signing_sk)
Sign(digest, signing_sk) == SignatureOf(digest, PublicKeyOf(signing_sk))

\* digest.verify(signing_pk, signature)
DigestVerify(digest, signing_pk, signature) ==
    signature = SignatureOf(digest, signing_pk)

(***************************************************************************)
(* KeyFragID.                                                              *)
(***************************************************************************)
KeyFragIDSize == 32

\* the 32 bytes of the id number k
IdBytes(k) == [i \in 1 .. KeyFragIDSize |-> IF i = KeyFragIDSize THEN k ELSE 0]

\* the values KeyFragID::random() draws from
KeyFragIDs == {IdBytes(k) : k \in 0 .. MaxId}

(***************************************************************************)
(* KeyFragProof and KeyFrag.                                               *)
(***************************************************************************)
\* KeyFragProof::new with signature_for_bob over the digest of the keys the
\* flags select, as signature_for_proxy is
KeyFragProof_new_bob_by_flags(params, kfrag_id, kfrag_key, kfrag_precursor, signing_sk, delegating_pk, receiving_pk, sign_delegating_key, sign_receiving_key) ==
    LET commitment == PointMul(params, kfrag_key)
        maybe_delegating_pk == Some(delegating_pk)
        maybe_receiving_pk == Some(receiving_pk)
        signature_for_proxy ==
            Sign(hash_to_cfrag_signature(kfrag_id, commitment, kfrag_precursor,
                     none_unless(maybe_delegating_pk, sign_delegating_key),
                     none_unless(maybe_receiving_pk, sign_receiving_key)),
                 signing_sk)
    IN  [commitment |-> commitment,
         signature_for_proxy |-> signature_for_proxy,
         signature_for_bob |-> signature_for_proxy,
         delegating_key_signed |-> sign_delegating_key,
         receiving_key_signed |-> sign_receiving_key]

\* KeyFragProof::new
KeyFragProof_new(params, kfrag_id, kfrag_key, kfrag_precursor, signing_sk, delegating_pk, receiving_pk, sign_delegating_key, sign_receiving_key) ==
    LET commitment == PointMul(params, kfrag_key)
        maybe_delegating_pk == Some(delegating_pk)
        maybe_receiving_pk == Some(receiving_pk)
        signature_for_bob ==
            Sign(hash_to_cfrag_signature(kfrag_id, commitment, kfrag_precursor,
                                         maybe_delegating_pk, maybe_receiving_pk),
                 signing_sk)
        signature_for_proxy ==
            Sign(hash_to_cfrag_signature(kfrag_id, commitment, kfrag_precursor,
                     none_unless(maybe_delegating_pk, sign_delegating_key),
                     none_unless(maybe_receiving_pk, sign_receiving_key)),
                 signing_sk)
    IN  [commitment |-> commitment,
         signature_for_proxy |-> signature_for_proxy,
         signature_for_bob |-> signature_for_bob,
         delegating_key_signed |-> sign_delegating_key,
         receiving_key_signed |-> sign_receiving_key]

\* the Horner loop of poly_eval, from index i down to 1
RECURSIVE poly_eval_loop(_, _, _, _)
poly_eval_loop(coeffs, x, i, acc) ==
    IF i = 0 THEN acc
    ELSE poly_eval_loop(coeffs, x, i - 1, ScalarAdd(ScalarMul(acc, x), coeffs[i]))

\* poly_eval with the loop running over (1..coeffs.len() - 1).rev(): coeffs[0]
\* is left out
poly_eval_skip_first(coeffs, x) ==
    IF Len(coeffs) = 1 THEN coeffs[1]
    ELSE poly_eval_loop(Tail(coeffs), x, Len(coeffs) - 2, coeffs[Len(coeffs)])

\* poly_eval(coeffs, x); coeffs[1] is the code's coeffs[0]
poly_eval(coeffs, x) ==
    poly_eval_loop(coeffs, x, Len(coeffs) - 1, coeffs[Len(coeffs)])

\* KeyFrag::new(factory, sign_delegating_key, sign_receiving_key), with the id
\* drawn by KeyFragID::random() and the value of hash_to_polynomial_arg
KeyFrag_new(f, kfrag_id, share_index, sign_delegating_key, sign_receiving_key) ==
    LET rk == poly_eval(f.coefficients, share_index)
        proof == KeyFragProof_new(f.params, kfrag_id, rk, f.precursor,
                                  f.signing_sk, f.delegating_pk, f.receiving_pk,
                                  sign_delegating_key, sign_receiving_key)
    IN  [params |-> f.params, id |-> kfrag_id, key |-> rk,
         precursor |-> f.precursor, proof |-> proof]

\* KeyFrag::verify with the receiving key kept under the delegating flag
KeyFrag_verify_one_flag(self, signing_pk, maybe_delegating_pk, maybe_receiving_pk) ==
    LET correct_commitment == self.proof.commitment = PointMul(self.params, self.key)
        delegating_key_provided ==
            ~(maybe_delegating_pk = None /\ self.proof.delegating_key_signed)
        receiving_key_provided ==
            ~(maybe_receiving_pk = None /\ self.proof.receiving_key_signed)
        signature_checked == delegating_key_provided /\ receiving_key_provided
        valid_kfrag_signature ==
            /\ signature_checked
            /\ DigestVerify(
                   hash_to_cfrag_signature(self.id, self.proof.commitment, self.precursor,
                       none_unless(maybe_delegating_pk, self.proof.delegating_key_signed),
                       none_unless(maybe_receiving_pk, self.proof.delegating_key_signed)),
                   signing_pk, self.proof.signature_for_proxy)
    IN  [result |-> correct_commitment /\ valid_kfrag_signature,
         checks |-> <<"commitment">> \o
                    (IF signature_checked THEN <<"signature">> ELSE <<>>)]

\* KeyFrag::verify without the shortcut on the keys that are not provided
KeyFrag_verify_no_shortcut(self, signing_pk, maybe_delegating_pk, maybe_receiving_pk) ==
    LET correct_commitment == self.proof.commitment = PointMul(self.params, self.key)
        valid_kfrag_signature ==
            DigestVerify(
                hash_to_cfrag_signature(self.id, self.proof.commitment, self.precursor,
                    none_unless(maybe_delegating_pk, self.proof.delegating_key_signed),
                    none_unless(maybe_receiving_pk, self.proof.receiving_key_signed)),
                signing_pk, self.proof.signature_for_proxy)
    IN  [result |-> correct_commitment /\ valid_kfrag_signature,
         checks |-> <<"commitment", "signature">>]

\* KeyFrag::verify returning false as soon as the commitment is wrong
KeyFrag_verify_early_return(self, signing_pk, maybe_delegating_pk, maybe_receiving_pk) ==
    LET correct_commitment == self.proof.commitment = PointMul(self.params, self.key)
        delegating_key_provided ==
            ~(maybe_delegating_pk = None /\ self.proof.delegating_key_signed)
        receiving_key_provided ==
            ~(maybe_receiving_pk = None /\ self.proof.receiving_key_signed)
        signature_checked ==
            correct_commitment /\ delegating_key_provided /\ receiving_key_provided
        valid_kfrag_signature ==
            /\ signature_checked
            /\ DigestVerify(
                   hash_to_cfrag_signature(self.id, self.proof.commitment, self.precursor,
                       none_unless(maybe_delegating_pk, self.proof.delegating_key_signed),
                       none_unless(maybe_receiving_pk, self.proof.receiving_key_signed)),
                   signing_pk, self.proof.signature_for_proxy)
    IN  [result |-> correct_commitment /\ valid_kfrag_signature,
         checks |-> <<"commitment">> \o
                    (IF signature_checked THEN <<"signature">> ELSE <<>>)]

\* KeyFrag::verify returning the signature check alone
KeyFrag_verify_no_commitment(self, signing_pk, maybe_delegating_pk, maybe_receiving_pk) ==
    LET delegating_key_provided ==
            ~(maybe_delegating_pk = None /\ self.proof.delegating_key_signed)
        receiving_key_provided ==
            ~(maybe_receiving_pk = None /\ self.proof.receiving_key_signed)
        signature_checked == delegating_key_provided /\ receiving_key_provided
        valid_kfrag_signature ==
            /\ signature_checked
            /\ DigestVerify(
                   hash_to_cfrag_signature(self.id, self.proof.commitment, self.precursor,
                       none_unless(maybe_delegating_pk, self.proof.delegating_key_signed),
                       none_unless(maybe_receiving_pk, self.proof.receiving_key_signed)),
                   signing_pk, self.proof.signature_for_proxy)
    IN  [result |-> valid_kfrag_signature,
         checks |-> <<"commitment">> \o
                    (IF signature_checked THEN <<"signature">> ELSE <<>>)]

\* KeyFrag::verify(signing_pk, maybe_delegating_pk, maybe_receiving_pk): its
\* result, and the sub-checks it evaluates, in order.  The operands of && after
\* a false one are not evaluated; both operands of & are.
KeyFrag_verify(self, signing_pk, maybe_delegating_pk, maybe_receiving_pk) ==
    LET u == self.params
        kfrag_id == self.id
        key == self.key
        commitment == self.proof.commitment
        precursor == self.precursor
        correct_commitment == commitment = PointMul(u, key)
        delegating_key_provided ==
            ~(maybe_delegating_pk = None /\ self.proof.delegating_key_signed)
        receiving_key_provided ==
            ~(maybe_receiving_pk = None /\ self.proof.receiving_key_signed)
        signature_checked == delegating_key_provided /\ receiving_key_provided
        valid_kfrag_signature ==
            /\ signature_checked
            /\ DigestVerify(
                   hash_to_cfrag_signature(kfrag_id, commitment, precursor,
                       none_unless(maybe_delegating_pk, self.proof.delegating_key_signed),
                       none_unless(maybe_receiving_pk, self.proof.receiving_key_signed)),
                   signing_pk, self.proof.signature_for_proxy)
    IN  [result |-> correct_commitment /\ valid_kfrag_signature,
         checks |-> <<"commitment">> \o
                    (IF signature_checked THEN <<"signature">> ELSE <<>>)]

(***************************************************************************)
(* KeyFragFactory::new and generate_kfrags.                                *)
(***************************************************************************)
\* the loop ends when !d.is_zero()
LoopBreaksAlways(d) == TRUE

LoopBreaks(d) == d # 0

\* coefficient0 without the inversion of d
CoefficientsNoInvert(delegating_sk, d, threshold, random) ==
    <<ScalarMul(delegating_sk, d)>> \o random

\* the coefficients pushed by KeyFragFactory::new: coefficient0, then one
\* random nonzero scalar for each _i in 1..threshold
Coefficients(delegating_sk, d, threshold, random) ==
    LET coefficient0 == ScalarMul(delegating_sk, ScalarInvert(d))
    IN  <<coefficient0>> \o random

\* the loop running over 0..threshold
ExtraCoefficientsFromZero(threshold) == threshold

\* the number of scalars the loop `for _i in 1..threshold` draws
ExtraCoefficients(threshold) == IF threshold >= 1 THEN threshold - 1 ELSE 0

\* the arguments of hash_to_shared_secret for the private precursor pp
SharedInput(pp) == <<PointMul(G, pp), args.receiving_pk, PointMul(args.receiving_pk, pp)>>

\* One iteration of the loop of KeyFragFactory::new, and, when it breaks, the
\* rest of the function.  pp is the value of random_nonzero() (among Priv), d
\* the value of hash_to_shared_secret (among Hash), random the later values of
\* random_nonzero() (among Rnd).
FactoryNew(Priv, Rnd, Hash) ==
    /\ pc = "factory"
    /\ \E pp \in Priv, d \in Hash :
        /\ SharedInput(pp) \in DOMAIN shared_oracle => d = shared_oracle[SharedInput(pp)]
        /\ IF LoopBreaks(d)
           THEN \E random \in [1 .. ExtraCoefficients(args.threshold) -> Rnd] :
                /\ factory' = [signing_sk |-> args.signing_sk,
                               precursor |-> PointMul(G, pp),
                               bob_pubkey_point |-> args.receiving_pk,
                               dh_point |-> PointMul(args.receiving_pk, pp),
                               params |-> args.params,
                               delegating_pk |-> PublicKeyOf(args.delegating_sk),
                               receiving_pk |-> args.receiving_pk,
                               coefficients |->
                                   Coefficients(args.delegating_sk, d,
                                                args.threshold, random)]
                /\ shared_oracle' = (SharedInput(pp) :> d)
                /\ attempts' = 0
                /\ pc' = "kfrags"
           ELSE /\ attempts < MaxAttempts
                /\ attempts' = attempts + 1
                /\ shared_oracle' = (SharedInput(pp) :> d) @@ shared_oracle
                /\ UNCHANGED <<factory, pc>>
    /\ UNCHANGED <<args, poly_oracle, result, py_result, call, wire, parsed>>

\* One iteration of `for _ in 0..num_kfrags`: result.push(KeyFrag::new(..)).
\* The hashers have no encoding of an identity commitment: the call panics.
KeyFragNew(Ids, Hash) ==
    /\ pc = "kfrags"
    /\ Len(result) < args.num_kfrags
    /\ \E kfrag_id \in Ids, share_index \in Hash :
        /\ kfrag_id \in DOMAIN poly_oracle => share_index = poly_oracle[kfrag_id]
        /\ poly_oracle' = (kfrag_id :> share_index) @@ poly_oracle
        /\ LET kfrag == KeyFrag_new(factory, kfrag_id, share_index,
                                    args.sign_delegating_key,
                                    args.sign_receiving_key)
           IN  IF PointSerializable(kfrag.proof.commitment)
               THEN result' = Append(result, kfrag) /\ pc' = "kfrags"
               ELSE result' = <<>> /\ pc' = "panic"
    /\ UNCHANGED <<args, attempts, shared_oracle, factory, py_result, call, wire, parsed>>

\* result.into_boxed_slice(): generate_kfrags returns
GenerateReturn ==
    /\ pc = "kfrags"
    /\ Len(result) = args.num_kfrags
    /\ pc' = "done"
    /\ UNCHANGED <<args, attempts, shared_oracle, factory, poly_oracle, result,
                   py_result, call, wire, parsed>>

\* the binding collecting the fragments in reverse
py_generate_kfrags_rev(backend_kfrags) ==
    [i \in 1 .. Len(backend_kfrags) |->
        [backend |-> backend_kfrags[Len(backend_kfrags) + 1 - i]]]

\* the Python binding's generate_kfrags: the backend's fragments, each wrapped
py_generate_kfrags(backend_kfrags) ==
    [i \in 1 .. Len(backend_kfrags) |-> [backend |-> backend_kfrags[i]]]

PyGenerateKfrags ==
    /\ pc = "done"
    /\ py_result = None
    /\ py_result' = Some(py_generate_kfrags(result))
    /\ UNCHANGED <<pc, args, attempts, shared_oracle, factory, poly_oracle, result,
                   call, wire, parsed>>

(***************************************************************************)
(* Serialization.                                                          *)
(***************************************************************************)
\* CompressedPointSize<Secp256k1>
PointSize == 33

\* <Secp256k1 as Curve>::ElementSize
ScalarSize == 32

\* the size of a bool, U1
BoolSize == 1

\* the bits of a u8
ByteBits == 8

ParametersSize == PointSize

KeyFragProofSize == PointSize + SignatureSize + SignatureSize + BoolSize + BoolSize

KeyFragSize == ParametersSize + ScalarSize + ScalarSize + PointSize + KeyFragProofSize

\* the 32 bytes, big endian, of a number below 256
BigEndian(v) == [i \in 1 .. ScalarSize |-> IF i = ScalarSize THEN v ELSE 0]

\* the 32 bytes encode a number below bound
BelowBound(bytes, bound) ==
    /\ \A i \in 1 .. (ScalarSize - 1) : bytes[i] = 0
    /\ bytes[ScalarSize] < bound

\* scalar_to_bytes(s)
scalar_to_bytes(s) == BigEndian(s)

\* CurveScalar::from_array: None for a number that is no scalar
bytes_to_scalar(bytes) ==
    IF BelowBound(bytes, Order) THEN Some(bytes[ScalarSize]) ELSE None

\* the x coordinate of a point: k.G and -k.G share it
XCoordinate(p) == IF 2 * p < Order THEN p ELSE Order - p

\* point_to_bytes(p), p not the identity: the tag of the compressed form (0x02
\* or 0x03, the parity of y) and the x coordinate
point_to_bytes(p) ==
    <<IF 2 * p < Order THEN 2 ELSE 3>> \o BigEndian(XCoordinate(p))

\* bytes_to_point(bytes): None when PublicKey::from_bytes rejects the tag or
\* when no point of the curve has the x coordinate
bytes_to_point(bytes) ==
    LET x == SubSeq(bytes, 2, PointSize)
    IN  IF bytes[1] \notin {2, 3} THEN None
        ELSE IF ~(BelowBound(x, Order) /\ x[ScalarSize] # 0 /\ 2 * x[ScalarSize] < Order)
        THEN None
        ELSE Some(IF bytes[1] = 2 THEN x[ScalarSize] ELSE Order - x[ScalarSize])

\* bool::to_array
bool_to_array(b) == <<IF b THEN 1 ELSE 0>>

\* bool::from_array
bool_from_array(bytes) ==
    IF bytes[1] = 0 THEN Some(FALSE) ELSE IF bytes[1] = 1 THEN Some(TRUE) ELSE None

\* Signature::to_array: a signature is its 64 bytes
Signature_to_array(signature) == signature

\* Signature::from_array: None when r or s is zero
Signature_from_array(bytes) ==
    IF \/ \A i \in 1 .. ScalarSize : bytes[i] = 0
       \/ \A i \in (ScalarSize + 1) .. SignatureSize : bytes[i] = 0
    THEN None
    ELSE Some(bytes)

\* KeyFragID::from_array
KeyFragID_from_array(bytes) == Some(bytes)

\* KeyFragProof::to_array with the two flags in the other order
KeyFragProof_to_array_swapped(proof) ==
    point_to_bytes(proof.commitment)
        \o Signature_to_array(proof.signature_for_proxy)
        \o Signature_to_array(proof.signature_for_bob)
        \o bool_to_array(proof.receiving_key_signed)
        \o bool_to_array(proof.delegating_key_signed)

\* KeyFragProof::to_array
KeyFragProof_to_array(proof) ==
    point_to_bytes(proof.commitment)
        \o Signature_to_array(proof.signature_for_proxy)
        \o Signature_to_array(proof.signature_for_bob)
        \o bool_to_array(proof.delegating_key_signed)
        \o bool_to_array(proof.receiving_key_signed)

\* T::take(arr): the first n bytes, and the rest
TakeHead(arr, n) == SubSeq(arr, 1, n)

TakeRest(arr, n) == SubSeq(arr, n + 1, Len(arr))

\* KeyFragProof::from_array reading the last flag as "not zero": a byte other
\* than 0x00 and 0x01 is accepted
KeyFragProof_from_array_nonzero_flag(arr) ==
    LET commitment == bytes_to_point(TakeHead(arr, PointSize))
        rest1 == TakeRest(arr, PointSize)
        signature_for_proxy == Signature_from_array(TakeHead(rest1, SignatureSize))
        rest2 == TakeRest(rest1, SignatureSize)
        signature_for_bob == Signature_from_array(TakeHead(rest2, SignatureSize))
        rest3 == TakeRest(rest2, SignatureSize)
        delegating_key_signed == bool_from_array(TakeHead(rest3, BoolSize))
        rest4 == TakeRest(rest3, BoolSize)
    IN  IF commitment = None THEN None
        ELSE IF signature_for_proxy = None THEN None
        ELSE IF signature_for_bob = None THEN None
        ELSE IF delegating_key_signed = None THEN None
        ELSE Some([commitment |-> commitment[1],
                   signature_for_proxy |-> signature_for_proxy[1],
                   signature_for_bob |-> signature_for_bob[1],
                   delegating_key_signed |-> delegating_key_signed[1],
                   receiving_key_signed |-> rest4[1] # 0])

\* KeyFragProof::from_array; each `?` returns None
KeyFragProof_from_array(arr) ==
    LET commitment == bytes_to_point(TakeHead(arr, PointSize))
        rest1 == TakeRest(arr, PointSize)
        signature_for_proxy == Signature_from_array(TakeHead(rest1, SignatureSize))
        rest2 == TakeRest(rest1, SignatureSize)
        signature_for_bob == Signature_from_array(TakeHead(rest2, SignatureSize))
        rest3 == TakeRest(rest2, SignatureSize)
        delegating_key_signed == bool_from_array(TakeHead(rest3, BoolSize))
        rest4 == TakeRest(rest3, BoolSize)
        receiving_key_signed == bool_from_array(rest4)
    IN  IF commitment = None THEN None
        ELSE IF signature_for_proxy = None THEN None
        ELSE IF signature_for_bob = None THEN None
        ELSE IF delegating_key_signed = None THEN None
        ELSE IF receiving_key_signed = None THEN None
        ELSE Some([commitment |-> commitment[1],
                   signature_for_proxy |-> signature_for_proxy[1],
                   signature_for_bob |-> signature_for_bob[1],
                   delegating_key_signed |-> delegating_key_signed[1],
                   receiving_key_signed |-> receiving_key_signed[1]])

\* KeyFrag::to_array
KeyFrag_to_array(self) ==
    point_to_bytes(self.params)
        \o self.id
        \o scalar_to_bytes(self.key)
        \o point_to_bytes(self.precursor)
        \o KeyFragProof_to_array(self.proof)

\* KeyFrag::from_array; each `?` returns None
KeyFrag_from_array(arr) ==
    LET params == bytes_to_point(TakeHead(arr, ParametersSize))
        rest1 == TakeRest(arr, ParametersSize)
        id == KeyFragID_from_array(TakeHead(rest1, KeyFragIDSize))
        rest2 == TakeRest(rest1, KeyFragIDSize)
        key == bytes_to_scalar(TakeHead(rest2, ScalarSize))
        rest3 == TakeRest(rest2, ScalarSize)
        precursor == bytes_to_point(TakeHead(rest3, PointSize))
        rest4 == TakeRest(rest3, PointSize)
        proof == KeyFragProof_from_array(rest4)
    IN  IF params = None THEN None
        ELSE IF id = None THEN None
        ELSE IF key = None THEN None
        ELSE IF precursor = None THEN None
        ELSE IF proof = None THEN None
        ELSE Some([params |-> params[1], id |-> id[1], key |-> key[1],
                   precursor |-> precursor[1], proof |-> proof[1]])

\* the byte b with its bit number `bit` flipped
FlipBit(b, bit) ==
    IF (b \div (2 ^ bit)) % 2 = 1 THEN b - 2 ^ bit ELSE b + 2 ^ bit

\* kfrag.to_array() of the i-th fragment returned, for a proxy
Send ==
    /\ pc = "done"
    /\ wire = None
    /\ \E i \in 1 .. Len(result) :
        wire' = Some([index |-> i, bytes |-> KeyFrag_to_array(result[i]), flipped |-> 0])
    /\ UNCHANGED <<pc, args, attempts, shared_oracle, factory, poly_oracle, result,
                   py_result, call, parsed>>

\* one bit of one byte changes on the way
Flip ==
    /\ wire # None
    /\ wire[1].flipped = 0
    /\ parsed = None
    /\ \E pos \in 1 .. KeyFragSize, bit \in 0 .. (ByteBits - 1) :
        wire' = Some([wire[1] EXCEPT !.bytes[pos] = FlipBit(@, bit), !.flipped = pos])
    /\ UNCHANGED <<pc, args, attempts, shared_oracle, factory, poly_oracle, result,
                   py_result, call, parsed>>

\* KeyFrag::from_array on the bytes received
Receive ==
    /\ wire # None
    /\ parsed = None
    /\ parsed' = Some(KeyFrag_from_array(wire[1].bytes))
    /\ UNCHANGED <<pc, args, attempts, shared_oracle, factory, poly_oracle, result,
                   py_result, call, wire>>

\* verify on the fragment received, with the batch's three keys
VerifyReceived ==
    /\ parsed # None
    /\ parsed[1] # None
    /\ call = None
    /\ LET self == parsed[1][1]
           signing_pk == PublicKeyOf(args.signing_sk)
           maybe_delegating_pk == Some(PublicKeyOf(args.delegating_sk))
           maybe_receiving_pk == Some(args.receiving_pk)
           r == KeyFrag_verify(self, signing_pk, maybe_delegating_pk, maybe_receiving_pk)
       IN  call' = Some([self |-> self, signing_pk |-> signing_pk,
                         maybe_delegating_pk |-> maybe_delegating_pk,
                         maybe_receiving_pk |-> maybe_receiving_pk,
                         result |-> r.result, checks |-> r.checks])
    /\ UNCHANGED <<pc, args, attempts, shared_oracle, factory, poly_oracle, result,
                   py_result, wire, parsed>>

(***************************************************************************)
(* Calls of KeyFrag::verify.                                               *)
(***************************************************************************)
\* The key fragments a caller may hold that differ from the fragment k in one
\* field: any other flags, key, commitment, params or precursor, or another
\* signature in the place of signature_for_proxy.
Forgeries(k) ==
    {[k EXCEPT !.proof.delegating_key_signed = fd, !.proof.receiving_key_signed = fr] :
        fd \in BOOLEAN, fr \in BOOLEAN}
    \cup {[k EXCEPT !.key = s] : s \in Scalars}
    \cup {[k EXCEPT !.proof.commitment = p] : p \in Points}
    \cup {[k EXCEPT !.params = p] : p \in Points}
    \cup {[k EXCEPT !.precursor = p] : p \in Points}
    \cup {[k EXCEPT !.proof.signature_for_proxy = k.proof.signature_for_bob]}
    \cup {[k EXCEPT !.proof.signature_for_proxy =
                SignatureOf(hash_to_cfrag_signature(k.id, k.proof.commitment,
                                                    k.precursor, None, None), p)] :
            p \in Points}

\* the signing keys the callers of verify try: the right one and another
TriedSigningKeys == {PublicKeyOf(args.signing_sk), PublicKeyOf(args.delegating_sk)}

\* the delegating and receiving keys the callers of verify try
TriedKeys == {PublicKeyOf(args.delegating_sk), args.receiving_pk}

\* A call of verify on a fragment generate_kfrags returned, or on a forgery of
\* one, with any of the keys tried.
Verify ==
    /\ pc = "done"
    /\ call = None
    /\ \E i \in 1 .. Len(result) :
       \E self \in Forgeries(result[i]) :
       \E signing_pk \in TriedSigningKeys :
       \E maybe_delegating_pk \in {None} \cup {Some(p) : p \in TriedKeys} :
       \E maybe_receiving_pk \in {None} \cup {Some(p) : p \in TriedKeys} :
           LET r == KeyFrag_verify(self, signing_pk, maybe_delegating_pk,
                                   maybe_receiving_pk)
           IN  call' = Some([self |-> self, signing_pk |-> signing_pk,
                             maybe_delegating_pk |-> maybe_delegating_pk,
                             maybe_receiving_pk |-> maybe_receiving_pk,
                             result |-> r.result, checks |-> r.checks])
    /\ UNCHANGED <<pc, args, attempts, shared_oracle, factory, poly_oracle, result,
                   py_result, wire, parsed>>

(***************************************************************************)
(* Specifications.                                                         *)
(***************************************************************************)
\* no factory yet
NoFactory == [signing_sk |-> 0, precursor |-> 0, bob_pubkey_point |-> 0,
              dh_point |-> 0, params |-> 0, delegating_pk |-> 0,
              receiving_pk |-> 0, coefficients |-> <<>>]

\* the state at the call of generate_kfrags with the arguments a
InitWith(ArgSet) ==
    /\ args \in ArgSet
    /\ pc = "factory"
    /\ attempts = 0
    /\ shared_oracle = <<>>
    /\ factory = NoFactory
    /\ poly_oracle = <<>>
    /\ result = <<>>
    /\ py_result = None
    /\ call = None
    /\ wire = None
    /\ parsed = None

\* the arguments of generate_kfrags explored by Spec
GenArgs ==
    [params : {U}, delegating_sk : {2, 3}, receiving_pk : {PublicKeyOf(3)},
     signing_sk : {4}, threshold : 0 .. MaxThreshold, num_kfrags : 0 .. MaxKfrags,
     sign_delegating_key : {TRUE}, sign_receiving_key : {FALSE}]

\* the private precursors explored
PrivatePrecursors == {1, 3}

Init == InitWith(GenArgs)

Next ==
    \/ FactoryNew(PrivatePrecursors, NonZeroScalars, Scalars)
    \/ KeyFragNew(KeyFragIDs, Scalars)
    \/ GenerateReturn
    \/ PyGenerateKfrags

Spec == Init /\ [][Next]_vars

\* the arguments of generate_kfrags explored by SpecVerify
VerifyArgs ==
    [params : {U}, delegating_sk : {2}, receiving_pk : {PublicKeyOf(3)},
     signing_sk : {4}, threshold : {1, MaxThreshold}, num_kfrags : 1 .. MaxKfrags,
     sign_delegating_key : BOOLEAN, sign_receiving_key : BOOLEAN]

\* the values of hash_to_shared_secret explored by SpecVerify
FewShared == {0, 2}

\* the values of hash_to_polynomial_arg explored by SpecVerify
FewShares == {1, 2}

InitVerify == InitWith(VerifyArgs)

NextVerify ==
    \/ FactoryNew({1}, {3}, FewShared)
    \/ KeyFragNew(KeyFragIDs, FewShares)
    \/ GenerateReturn
    \/ Verify

SpecVerify == InitVerify /\ [][NextVerify]_vars

\* the arguments of generate_kfrags explored by SpecBytes
BytesArgs ==
    [params : {U}, delegating_sk : {2}, receiving_pk : {PublicKeyOf(3)},
     signing_sk : {4}, threshold : {1, MaxThreshold}, num_kfrags : {1},
     sign_delegating_key : BOOLEAN, sign_receiving_key : BOOLEAN]

InitBytes == InitWith(BytesArgs)

NextBytes ==
    \/ FactoryNew({1}, {3}, FewShared)
    \/ KeyFragNew(KeyFragIDs, FewShares)
    \/ GenerateReturn
    \/ Send
    \/ Flip
    \/ Receive
    \/ VerifyReceived

SpecBytes == InitBytes /\ [][NextBytes]_vars

(***************************************************************************)
(* Properties of generate_kfrags.                                          *)
(***************************************************************************)
\* the factory has been built
FactoryBuilt == pc \in {"kfrags", "done"}

\* the value d of hash_to_shared_secret the factory was built with
FactoryD ==
    shared_oracle[<<factory.precursor, factory.bob_pubkey_point, factory.dh_point>>]

\* the share index of a fragment: hash_to_polynomial_arg of its id
ShareIndex(kfrag) == poly_oracle[kfrag.id]

\* the sum of coeffs[j] * x^(j-1) for j in 1..n
RECURSIVE PolySum(_, _, _)
PolySum(coeffs, x, n) ==
    IF n = 0 THEN 0
    ELSE ScalarAdd(PolySum(coeffs, x, n - 1), ScalarMul(coeffs[n], ScalarPow(x, n - 1)))

\* the product over j in S of x_j / (x_j - x_i)
RECURSIVE LagrangeProduct(_, _)
LagrangeProduct(S, i) ==
    IF S = {} THEN 1
    ELSE LET j == CHOOSE k \in S : TRUE
             xi == ShareIndex(result[i])
             xj == ShareIndex(result[j])
         IN  ScalarMul(ScalarMul(xj, ScalarInvert(ScalarSub(xj, xi))),
                       LagrangeProduct(S \ {j}, i))

\* lambda_i for the fragments S
Lambda(S, i) == LagrangeProduct(S \ {i}, i)

\* the sum over i in R of lambda_i * key_i, the lambdas being those of S
RECURSIVE Interpolate(_, _)
Interpolate(S, R) ==
    IF R = {} THEN 0
    ELSE LET i == CHOOSE k \in R : TRUE
         IN  ScalarAdd(ScalarMul(Lambda(S, i), result[i].key),
                       Interpolate(S, R \ {i}))

\* the share indices of the fragments S are pairwise distinct
DistinctShares(S) ==
    \A i, j \in S : i # j => ShareIndex(result[i]) # ShareIndex(result[j])

\* the arguments break the precondition 1 <= threshold <= num_kfrags
BadThreshold == args.threshold = 0 \/ args.threshold > args.num_kfrags

\* C4 as stated: a call with threshold = 0 or threshold > num_kfrags ends in a
\* fatal failure and returns no key fragments.
C4_FatalPrecondition == BadThreshold => ~(pc = "done" /\ result # <<>>)

\* C4, amended: generate_kfrags checks nothing about threshold.  The polynomial
\* has threshold coefficients, one when threshold = 0; a call that returns
\* returns num_kfrags fragments whatever the threshold; and the only failure,
\* the panic on a zero share, needs threshold >= 2.
C4_NoPrecondition ==
    /\ FactoryBuilt =>
          Len(factory.coefficients) = (IF args.threshold = 0 THEN 1 ELSE args.threshold)
    /\ pc = "done" => Len(result) = args.num_kfrags
    /\ pc = "panic" => args.threshold >= 2

C4_Witness ==
    /\ pc = "done"
    /\ args.threshold = 0
    /\ Len(result) = MaxKfrags

\* C5: any threshold fragments of a batch with pairwise distinct share indices
\* interpolate to f(0) = sk_A * d^-1, and d times that is sk_A.
C5_ThresholdReconstruction ==
    (FactoryBuilt /\ args.threshold >= 1) =>
        \A S \in SUBSET (1 .. Len(result)) :
            (Cardinality(S) = args.threshold /\ DistinctShares(S)) =>
                /\ FactoryD # 0
                /\ Interpolate(S, S) = factory.coefficients[1]
                /\ Interpolate(S, S) = ScalarMul(args.delegating_sk, ScalarInvert(FactoryD))
                /\ ScalarMul(FactoryD, Interpolate(S, S)) = args.delegating_sk

C5_Witness ==
    /\ pc = "done"
    /\ args.threshold = MaxThreshold
    /\ Len(result) = MaxKfrags
    /\ DistinctShares({1, Len(result)})
    /\ FactoryD \notin {1, Order - 1}
    /\ result[1].key # result[Len(result)].key

\* C8: generate_kfrags returns exactly num_kfrags fragments, none for
\* num_kfrags = 0, and the binding returns as many, in the same order.
C8_ReturnsNumKfrags ==
    /\ pc = "done" => Len(result) = args.num_kfrags
    /\ py_result # None =>
          /\ pc = "done"
          /\ Len(py_result[1]) = args.num_kfrags
          /\ \A i \in 1 .. args.num_kfrags : py_result[1][i].backend = result[i]

C8_Witness ==
    /\ py_result # None
    /\ Len(py_result[1]) = MaxKfrags
    /\ py_result[1][1] # py_result[1][MaxKfrags]

\* the cap C9 speaks of, below the number of attempts explored
RetryCap == MaxAttempts - 1

\* C9 as stated: after a fixed cap of attempts that all gave d == 0 the factory
\* stops instead of sampling again.
C9_BoundedLoop == attempts >= RetryCap => pc # "factory"

\* C9, amended: the loop has no cap and no fatal exit.  While every attempt
\* gave d == 0 the factory is still in its loop, which can sample again; it
\* leaves the loop only with a nonzero d.
C9_LoopUntilNonzero ==
    /\ pc = "factory" =>
          /\ \A input \in DOMAIN shared_oracle : shared_oracle[input] = 0
          /\ factory = NoFactory
          /\ attempts < MaxAttempts => ENABLED FactoryNew(PrivatePrecursors, NonZeroScalars, Scalars)
    /\ FactoryBuilt => FactoryD # 0
    /\ pc = "panic" => result = <<>>

C9_Witness ==
    /\ pc = "factory"
    /\ attempts = MaxAttempts
    /\ Cardinality(DOMAIN shared_oracle) >= 2

\* C10: every fragment's key is the polynomial's sum of f_j * x_i^j at its share
\* index, its commitment is u * key, and the fragments of a batch share params
\* and precursor; poly_eval equals the sum on every list of coefficients.
C10_KeyIsPolynomialValue ==
    /\ FactoryBuilt =>
          \A i \in 1 .. Len(result) :
              /\ result[i].key = PolySum(factory.coefficients, ShareIndex(result[i]),
                                         Len(factory.coefficients))
              /\ result[i].proof.commitment = PointMul(args.params, result[i].key)
              /\ result[i].params = args.params
              /\ result[i].precursor = factory.precursor
              /\ result[i].params = result[1].params
              /\ result[i].precursor = result[1].precursor
    /\ (pc = "factory" /\ attempts = 0) =>
          \A n \in 1 .. (MaxThreshold + 1) :
              \A coeffs \in [1 .. n -> Scalars] :
                  \A x \in Scalars : poly_eval(coeffs, x) = PolySum(coeffs, x, n)

C10_Witness ==
    /\ pc = "done"
    /\ Len(result) = MaxKfrags
    /\ args.threshold = MaxThreshold
    /\ ShareIndex(result[1]) > 1
    /\ result[1].key # factory.coefficients[1]
    /\ result[1].key # result[MaxKfrags].key

(***************************************************************************)
(* Properties of KeyFrag::verify.                                          *)
(***************************************************************************)
\* the fragment of the call is one generate_kfrags returned
CallOnReturned == call # None /\ \E i \in 1 .. Len(result) : result[i] = call[1].self

\* a key the fragment's flags ask for is not provided to the call
RequiredKeyMissing ==
    \/ call[1].self.proof.delegating_key_signed /\ call[1].maybe_delegating_pk = None
    \/ call[1].self.proof.receiving_key_signed /\ call[1].maybe_receiving_pk = None

\* C1: on a fragment of generate_kfrags, verify is true exactly when signing_pk
\* is the signer's key and each key the flags ask for is supplied and is the
\* batch's; a key supplied for a flag that is false does not matter.
C1_VerifyIffKeysMatchFlags ==
    CallOnReturned =>
        LET c == call[1]
            k == c.self
        IN  /\ k.proof.delegating_key_signed = args.sign_delegating_key
            /\ k.proof.receiving_key_signed = args.sign_receiving_key
            /\ c.result <=>
                  /\ c.signing_pk = PublicKeyOf(args.signing_sk)
                  /\ args.sign_delegating_key =>
                        c.maybe_delegating_pk = Some(PublicKeyOf(args.delegating_sk))
                  /\ args.sign_receiving_key =>
                        c.maybe_receiving_pk = Some(args.receiving_pk)
            /\ ~args.sign_delegating_key =>
                  c.result = KeyFrag_verify(k, c.signing_pk, None,
                                            c.maybe_receiving_pk).result
            /\ ~args.sign_receiving_key =>
                  c.result = KeyFrag_verify(k, c.signing_pk, c.maybe_delegating_pk,
                                            None).result

C1_Witness ==
    /\ CallOnReturned
    /\ args.sign_delegating_key
    /\ ~args.sign_receiving_key
    /\ call[1].maybe_delegating_pk = Some(PublicKeyOf(args.delegating_sk))
    /\ call[1].maybe_receiving_pk = Some(PublicKeyOf(args.delegating_sk))
    /\ call[1].result

\* C2: on any fragment, verify is false when a key its flags ask for is not
\* provided.
C2_MissingKeyFails == (call # None /\ RequiredKeyMissing) => ~call[1].result

\* a fragment forged from one signed without keys: its flags are raised, and
\* every other check of verify passes
C2_Witness ==
    /\ call # None
    /\ ~CallOnReturned
    /\ RequiredKeyMissing
    /\ ~call[1].result
    /\ KeyFrag_verify_no_shortcut(call[1].self, call[1].signing_pk,
                                  call[1].maybe_delegating_pk,
                                  call[1].maybe_receiving_pk).result

\* C7 as stated: every call evaluates both the commitment check and the
\* signature check.
C7_NoShortCircuit == call # None => call[1].checks = <<"commitment", "signature">>

\* C7, amended: every call evaluates the commitment check; the signature check
\* is evaluated, whether or not the commitment is right, unless a key the flags
\* ask for is missing, and then it is skipped and the result is false.  The
\* result is the AND of the commitment check and the signature check.
C7_ShortcutOnMissingKey ==
    call # None =>
        LET c == call[1]
            k == c.self
            commitment_ok == k.proof.commitment = PointMul(k.params, k.key)
            signature_ok ==
                k.proof.signature_for_proxy =
                    SignatureOf(<<k.id, k.proof.commitment, k.precursor,
                                  IF k.proof.delegating_key_signed
                                  THEN c.maybe_delegating_pk ELSE None,
                                  IF k.proof.receiving_key_signed
                                  THEN c.maybe_receiving_pk ELSE None>>,
                                c.signing_pk)
        IN  /\ c.checks = IF RequiredKeyMissing THEN <<"commitment">>
                          ELSE <<"commitment", "signature">>
            /\ c.result <=> (commitment_ok /\ ~RequiredKeyMissing /\ signature_ok)

C7_Witness ==
    /\ CallOnReturned
    /\ call[1].checks = <<"commitment">>
    /\ call[1].signing_pk = PublicKeyOf(args.signing_sk)
    /\ ~call[1].result

\* the digests a verifier can form for the fragment k from the batch's keys:
\* each key supplied or not
BatchKeyChoices ==
    {<<md, mr>> : md \in {None, Some(PublicKeyOf(args.delegating_sk))},
                  mr \in {None, Some(args.receiving_pk)}}

\* the signature verifies, under the signer's key, for the digest of the
\* fragment k with the optional keys md and mr
SignedWith(k, signature, md, mr) ==
    DigestVerify(hash_to_cfrag_signature(k.id, k.proof.commitment, k.precursor, md, mr),
                 PublicKeyOf(args.signing_sk), signature)

\* C11: for every pair of flags, signature_for_bob of a fragment is signing_sk's
\* signature of the digest with both keys, signature_for_proxy is its signature
\* of the digest with pk_A exactly when sign_delegating_key and pk_B exactly
\* when sign_receiving_key, the proof stores the flags passed, and the digest
\* verify forms from the stored flags is the one signed.  Stated of the
\* fragments as generate_kfrags leaves them, before any call of verify.
C11_ProofSignsTwoDigests ==
    call = None =>
    \A i \in 1 .. Len(result) :
        LET k == result[i]
            pk_A == PublicKeyOf(args.delegating_sk)
            pk_B == args.receiving_pk
        IN  /\ k.proof.delegating_key_signed = args.sign_delegating_key
            /\ k.proof.receiving_key_signed = args.sign_receiving_key
            /\ \A ch \in BatchKeyChoices :
                   /\ SignedWith(k, k.proof.signature_for_bob, ch[1], ch[2])
                          <=> (ch[1] # None /\ ch[2] # None)
                   /\ SignedWith(k, k.proof.signature_for_proxy, ch[1], ch[2])
                          <=> /\ (ch[1] # None) <=> args.sign_delegating_key
                              /\ (ch[2] # None) <=> args.sign_receiving_key
            /\ \A signer \in Points \ {PublicKeyOf(args.signing_sk)} :
                   \A ch \in BatchKeyChoices :
                       LET digest == hash_to_cfrag_signature(k.id, k.proof.commitment,
                                                             k.precursor, ch[1], ch[2])
                       IN  /\ ~DigestVerify(digest, signer, k.proof.signature_for_bob)
                           /\ ~DigestVerify(digest, signer, k.proof.signature_for_proxy)
            /\ SignedWith(k, k.proof.signature_for_proxy,
                          none_unless(Some(pk_A), k.proof.delegating_key_signed),
                          none_unless(Some(pk_B), k.proof.receiving_key_signed))
            /\ KeyFrag_verify(k, PublicKeyOf(args.signing_sk), Some(pk_A), Some(pk_B)).result

C11_Witness ==
    /\ pc = "done"
    /\ Len(result) = MaxKfrags
    /\ ~args.sign_delegating_key
    /\ args.sign_receiving_key
    /\ result[1].proof.signature_for_proxy # result[1].proof.signature_for_bob
    /\ result[1].proof.signature_for_proxy # result[MaxKfrags].proof.signature_for_proxy
    /\ call = None

(***************************************************************************)
(* Properties of the serialized form.                                      *)
(***************************************************************************)
\* the positions of signature_for_bob in the bytes of a KeyFrag, from 1
SignatureForBobBytes ==
    (KeyFragSize - BoolSize - BoolSize - SignatureSize + 1) ..
        (KeyFragSize - BoolSize - BoolSize)

\* a fragment was sent, a bit of it flipped, and it was decoded and verified
FlippedAndVerified == wire # None /\ wire[1].flipped # 0 /\ call # None

\* C3 as stated: after a flip in any byte of a fragment's 293 bytes, from_array
\* returns None or verify, with the right keys, returns false.
C3_AnyFlipDetected == FlippedAndVerified => ~call[1].result

\* C3, amended: a flip in any byte other than the 64 bytes of signature_for_bob
\* makes from_array return None or verify return false; verify does not read
\* signature_for_bob, and a flip there that from_array accepts leaves verify
\* true.
C3_FlipDetectedExceptSignatureForBob ==
    FlippedAndVerified =>
        /\ parsed[1][1] # result[wire[1].index]
        /\ call[1].self = parsed[1][1]
        /\ call[1].result <=> wire[1].flipped \in SignatureForBobBytes

C3_Witness ==
    /\ FlippedAndVerified
    /\ wire[1].flipped = KeyFragSize - 1
    /\ parsed[1][1].proof.delegating_key_signed
    /\ ~args.sign_delegating_key
    /\ ~call[1].result

\* C6: from_array(to_array(kfrag)) is the fragment, field for field, and the
\* bytes are 293: params, id, key, precursor and the 163 bytes of the proof,
\* which are commitment, signature_for_proxy, signature_for_bob and the two
\* flags.
C6_RoundTripAndLayout ==
    (wire # None /\ wire[1].flipped = 0) =>
        LET k == result[wire[1].index]
            b == wire[1].bytes
        IN  /\ KeyFragSize = 293
            /\ KeyFragProofSize = 163
            /\ Len(b) = 293
            /\ \A i \in 1 .. 293 : b[i] \in 0 .. 255
            /\ SubSeq(b, 1, 33) = point_to_bytes(k.params)
            /\ SubSeq(b, 34, 65) = k.id
            /\ SubSeq(b, 66, 97) = scalar_to_bytes(k.key)
            /\ SubSeq(b, 98, 130) = point_to_bytes(k.precursor)
            /\ SubSeq(b, 131, 163) = point_to_bytes(k.proof.commitment)
            /\ SubSeq(b, 164, 227) = k.proof.signature_for_proxy
            /\ SubSeq(b, 228, 291) = k.proof.signature_for_bob
            /\ b[292] = (IF k.proof.delegating_key_signed THEN 1 ELSE 0)
            /\ b[293] = (IF k.proof.receiving_key_signed THEN 1 ELSE 0)
            /\ parsed # None => parsed = Some(Some(k))

C6_Witness ==
    /\ wire # None
    /\ wire[1].flipped = 0
    /\ parsed = Some(Some(result[wire[1].index]))
    /\ result[wire[1].index].proof.delegating_key_signed
    /\ ~result[wire[1].index].proof.receiving_key_signed
    /\ result[wire[1].index].key > 1

\* the bytes of a compressed point with the tag and the last two bytes of x
\* given, the other bytes of x zero
PointBytes(tag, hi, lo) ==
    [i \in 1 .. PointSize |->
        IF i = 1 THEN tag ELSE IF i = PointSize - 1 THEN hi
        ELSE IF i = PointSize THEN lo ELSE 0]

\* the bytes are the encoding of a point of the curve
EncodesPoint(bytes) == \E p \in Points : point_to_bytes(p) = bytes

\* the components of the bytes received, each decoded on its own from its
\* place in the 293 bytes
Components ==
    LET b == wire[1].bytes
    IN  [params |-> bytes_to_point(SubSeq(b, 1, 33)),
         id |-> KeyFragID_from_array(SubSeq(b, 34, 65)),
         key |-> bytes_to_scalar(SubSeq(b, 66, 97)),
         precursor |-> bytes_to_point(SubSeq(b, 98, 130)),
         commitment |-> bytes_to_point(SubSeq(b, 131, 163)),
         signature_for_proxy |-> Signature_from_array(SubSeq(b, 164, 227)),
         signature_for_bob |-> Signature_from_array(SubSeq(b, 228, 291)),
         delegating_key_signed |-> bool_from_array(SubSeq(b, 292, 292)),
         receiving_key_signed |-> bool_from_array(SubSeq(b, 293, 293))]

\* C12: KeyFrag::from_array always returns; it returns None when any component
\* of the bytes fails to decode, a flag byte other than 0x00 and 0x01 included,
\* and otherwise Some of the fragment made of all the decoded components; and
\* bytes_to_point returns None exactly for the bytes that encode no point.
C12_FromArrayAllOrNothing ==
    /\ (wire # None /\ parsed = None) => ENABLED Receive
    /\ parsed # None =>
          LET c == Components
              b == wire[1].bytes
          IN  /\ parsed[1] = None <=> \E f \in DOMAIN c : c[f] = None
              /\ (b[292] \notin {0, 1} \/ b[293] \notin {0, 1}) => parsed[1] = None
              /\ parsed[1] # None =>
                    /\ parsed[1][1] =
                          [params |-> c.params[1], id |-> c.id[1], key |-> c.key[1],
                           precursor |-> c.precursor[1],
                           proof |-> [commitment |-> c.commitment[1],
                                      signature_for_proxy |-> c.signature_for_proxy[1],
                                      signature_for_bob |-> c.signature_for_bob[1],
                                      delegating_key_signed |-> c.delegating_key_signed[1],
                                      receiving_key_signed |-> c.receiving_key_signed[1]]]
                    /\ parsed[1][1].params \in Points
                    /\ parsed[1][1].key \in Scalars
                    /\ parsed[1][1].precursor \in Points
                    /\ parsed[1][1].proof.commitment \in Points
                    /\ parsed[1][1].proof.delegating_key_signed \in BOOLEAN
                    /\ parsed[1][1].proof.receiving_key_signed \in BOOLEAN
              /\ \A first \in {1, 98, 131} :
                    LET bytes == SubSeq(b, first, first + 32)
                    IN  /\ bytes_to_point(bytes) = None <=> ~EncodesPoint(bytes)
                        /\ bytes_to_point(bytes) # None =>
                               point_to_bytes(bytes_to_point(bytes)[1]) = bytes
    /\ (pc = "factory" /\ attempts = 0) =>
          \A tag \in 0 .. 5, hi \in 0 .. 1, lo \in 0 .. (Order + 1) :
              LET bytes == PointBytes(tag, hi, lo)
              IN  /\ bytes_to_point(bytes) = None <=> ~EncodesPoint(bytes)
                  /\ bytes_to_point(bytes) # None =>
                         point_to_bytes(bytes_to_point(bytes)[1]) = bytes

\* a flag byte that is neither 0x00 nor 0x01 was received, and nothing decoded
C12_Witness ==
    /\ wire # None
    /\ wire[1].flipped = KeyFragSize
    /\ wire[1].bytes[KeyFragSize] \notin {0, 1}
    /\ Components.receiving_key_signed = None
    /\ Components.key # None
    /\ parsed = Some(None)

====
